---------------------------- MODULE Spec2Model ----------------------------
(***************************************************************************)
(* Model of CFGParser (src/CFGParser.hpp, src/CFGParser.cpp): the          *)
(* character-driven parser of load(), the section store, the include       *)
(* protocol, the lookup engine getString() and the setter set().           *)
(*                                                                         *)
(* Strings are sequences of one-character strings.  A byte read from a     *)
(* file is one element of such a sequence; the value file.get() returns    *)
(* at the end of the stream is the character EOF.                          *)
(***************************************************************************)
EXTENDS Integers, Sequences, FiniteSets, TLC

(***************************************************************************)
(* Bounds of the exploration.                                              *)
(***************************************************************************)
\* number of input chunks read from files in one behaviour
MaxChunks == 3
\* number of nested load() frames (the primary file and its includes)
MaxDepth == 2
\* number of lines of an input text of the text-level specification
MaxLines == 3

(***************************************************************************)
(* Characters.                                                             *)
(***************************************************************************)
comment_character == ";"
comment_multiline == "|"
EOF == "EOF"

Digits == <<"0", "1", "2", "3", "4", "5", "6", "7", "8", "9">>

allowed_characters ==
    { "0", "1", "2", "3", "4", "5", "6", "7", "8", "9",
      "A", "B", "C", "D", "E", "F", "G", "H", "I", "J", "K", "L", "M",
      "N", "O", "P", "Q", "R", "S", "T", "U", "V", "W", "X", "Y", "Z",
      "a", "b", "c", "d", "e", "f", "g", "h", "i", "j", "k", "l", "m",
      "n", "o", "p", "q", "r", "s", "t", "u", "v", "w", "x", "y", "z",
      "_" }

\* std::find(...) == cend(): true exactly when the character is NOT in the
\* table.  load() never calls it.
isCharacterValid(character) == character \notin allowed_characters

(***************************************************************************)
(* The section store.                                                      *)
(***************************************************************************)
\* struct Section: a default-constructed Section{}
EmptyMap == [x \in {} |-> <<>>]
Section == [inheritances |-> <<>>, attributes |-> <<>>, values |-> EmptyMap]

\* the null value of Section* section_ptr
nullptr == <<"nullptr">>

\* an insertion that forgets the other entries of the map
MapPut_Fresh(m, k, v) == [x \in {k} |-> v]

\* unordered_map::try_emplace / operator[]: the map with key k bound to v
MapPut(m, k, v) == [x \in (DOMAIN m) \cup {k} |-> IF x = k THEN v ELSE m[x]]

\* const std::string _dummy_str {}
dummy_str == <<>>

(***************************************************************************)
(* The parse state of one load() frame.                                    *)
(***************************************************************************)
ParseAction ==
    { "NEW_LINE", "SECTION", "INHERITANCE", "ATTRIBUTE", "KEY", "VALUE",
      "VALUE_ARRAY", "STRING_VALUE", "COMMENT", "MULTILINE_COMMENT",
      "PREPROCESSOR", "INCLUDE", "ERROR" }

\* the locals of load() right after the file has been opened
Frame ==
    [ section |-> <<>>, inheritance |-> <<>>, attribute |-> <<>>,
      key |-> <<>>, value |-> <<>>,
      pp_first |-> <<>>, pp_second |-> <<>>,
      section_ptr |-> nullptr,
      parse_action |-> "NEW_LINE",
      ignore_current_spaces |-> TRUE,
      escape |-> FALSE,
      saved_file |-> <<>>,
      file_path |-> <<>>,
      rest |-> <<>> ]

\* the locals of a call of load(file_path)
NewFrame(file_path) == [Frame EXCEPT !.file_path = file_path]

include_word == <<"i", "n", "c", "l", "u", "d", "e">>

\* what one iteration of the read loop produces: the frame, the store, the
\* diagnostic handed to the message functor ("" when none), and the path
\* passed to IncludeFile (or NoInclude)
NoInclude == <<"NoInclude">>
NoMsg == ""
Out(f, sd, m) == [f |-> f, sd |-> sd, msg |-> m, inc |-> NoInclude]

(***************************************************************************)
(* The lambdas of load().                                                  *)
(***************************************************************************)
\* PushInheritance without the existence test
PushInheritance_NoCheck(f, sd) ==
    IF f.inheritance # <<>> /\ f.section_ptr # nullptr
    THEN Out([f EXCEPT !.inheritance = <<>>],
             [sd EXCEPT ![f.section_ptr].inheritances =
                            Append(@, f.inheritance)],
             NoMsg)
    ELSE Out(f, sd, NoMsg)

PushInheritance(f, sd) ==
    IF f.inheritance # <<>> /\ f.section_ptr # nullptr
    THEN IF f.inheritance \in DOMAIN sd
         THEN Out([f EXCEPT !.inheritance = <<>>],
                  [sd EXCEPT ![f.section_ptr].inheritances =
                                 Append(@, f.inheritance)],
                  NoMsg)
         ELSE Out([f EXCEPT !.inheritance = <<>>], sd,
                  "Inherited section is not exist!")
    ELSE Out(f, sd, NoMsg)

PushAttribute(f, sd) ==
    IF f.attribute # <<>> /\ f.section_ptr # nullptr
    THEN Out([f EXCEPT !.attribute = <<>>],
             [sd EXCEPT ![f.section_ptr].attributes = Append(@, f.attribute)],
             NoMsg)
    ELSE Out(f, sd, NoMsg)

\* parse_action = a; everything else as it was
Goto(f, a) == [f EXCEPT !.parse_action = a]
\* parse_action = ParseAction::ERROR; msg(m)
Fail(f, sd, m) == Out(Goto(f, "ERROR"), sd, m)
\* value += character
AddValue(f, c) == [f EXCEPT !.value = Append(@, c)]
InComment(f) == f.parse_action \in {"COMMENT", "MULTILINE_COMMENT"}

(***************************************************************************)
(* The cases of the character switch of load().                            *)
(***************************************************************************)
\* case comment_character without the STRING_VALUE branch
OnComment_Always(f, sd, c) == Out(Goto(f, "COMMENT"), sd, NoMsg)

OnComment(f, sd, c) ==
    IF f.parse_action = "STRING_VALUE"
    THEN Out(AddValue(f, c), sd, NoMsg)
    ELSE Out(Goto(f, "COMMENT"), sd, NoMsg)

OnMultiline(f, sd, c) ==
    CASE f.parse_action = "STRING_VALUE" -> Out(AddValue(f, c), sd, NoMsg)
      [] f.parse_action = "MULTILINE_COMMENT" ->
             Out(Goto(f, "NEW_LINE"), sd, NoMsg)
      [] OTHER -> Out(Goto(f, "MULTILINE_COMMENT"), sd, NoMsg)

OnSpace(f, sd, c) ==
    CASE f.parse_action = "STRING_VALUE" -> Out(AddValue(f, c), sd, NoMsg)
      [] f.parse_action = "PREPROCESSOR" ->
             Out([f EXCEPT !.parse_action =
                               IF f.pp_first = include_word
                               THEN "INCLUDE" ELSE @,
                           !.pp_first = <<>>], sd, NoMsg)
      [] f.parse_action \in
             {"ATTRIBUTE", "INHERITANCE", "KEY", "SECTION", "VALUE"} ->
             IF ~f.ignore_current_spaces
             THEN Fail(f, sd, "Space in wrong place")
             ELSE Out(f, sd, NoMsg)
      [] OTHER -> Out(f, sd, NoMsg)

\* case '\\': in STRING_VALUE the handler reads one more byte itself; the
\* frame remembers that this nested read is pending
OnBackslash(f, sd, c) ==
    CASE InComment(f) -> Out(f, sd, NoMsg)
      [] f.parse_action = "STRING_VALUE" ->
             Out([f EXCEPT !.escape = TRUE], sd, NoMsg)
      [] OTHER -> Fail(f, sd, "Unexpected escape-symbol")

\* the inner switch (file.get()) of case '\\'
OnEscape(f, sd, c) ==
    LET g == [f EXCEPT !.escape = FALSE]
    IN  CASE c = "\\" -> Out(AddValue(g, "\\"), sd, NoMsg)
          [] c = "n" -> Out(AddValue(g, "\n"), sd, NoMsg)
          [] c = "\"" -> Out(AddValue(g, "\""), sd, NoMsg)
          [] c = "'" -> Out(AddValue(g, "'"), sd, NoMsg)
          [] OTHER -> Out(g, sd, "Unknown escape-sequence symbol")

OnQuote(f, sd, c) ==
    CASE f.parse_action = "STRING_VALUE" -> Out(Goto(f, "VALUE"), sd, NoMsg)
      [] f.parse_action = "VALUE" -> Out(Goto(f, "STRING_VALUE"), sd, NoMsg)
      [] OTHER -> Out(f, sd, NoMsg)

OnHash(f, sd, c) ==
    CASE InComment(f) -> Out(f, sd, NoMsg)
      [] f.parse_action = "NEW_LINE" -> Out(Goto(f, "PREPROCESSOR"), sd, NoMsg)
      [] f.parse_action = "STRING_VALUE" -> Out(AddValue(f, c), sd, NoMsg)
      [] OTHER -> Fail(f, sd, "Preprocessor parse error")

OnNewline(f, sd, c) ==
    LET r == CASE InComment(f) -> Out(f, sd, NoMsg)
               [] f.parse_action = "INHERITANCE" -> PushInheritance(f, sd)
               [] f.parse_action \in {"PREPROCESSOR", "INCLUDE"} ->
                      Out(f, sd, NoMsg)
               [] f.parse_action = "ATTRIBUTE" -> PushAttribute(f, sd)
               [] f.parse_action \in {"VALUE", "VALUE_ARRAY"} ->
                      Out([f EXCEPT !.key = <<>>, !.value = <<>>],
                          IF f.section_ptr # nullptr
                          THEN [sd EXCEPT ![f.section_ptr].values =
                                              MapPut(@, f.key, f.value)]
                          ELSE sd,
                          NoMsg)
               [] f.parse_action \in {"STRING_VALUE", "NEW_LINE"} ->
                      Out(f, sd, NoMsg)
               [] f.parse_action = "SECTION" ->
                      Out(Goto(f, "NEW_LINE"), sd, NoMsg)
               [] OTHER -> Fail(f, sd, "New line parse error")
        a == r.f.parse_action
    IN  [r EXCEPT !.f.parse_action =
                      IF a # "STRING_VALUE" /\ a # "MULTILINE_COMMENT"
                      THEN "NEW_LINE" ELSE a,
                  !.f.ignore_current_spaces = TRUE]

OnLess(f, sd, c) ==
    CASE f.parse_action = "STRING_VALUE" -> Out(AddValue(f, c), sd, NoMsg)
      [] OTHER -> Out(f, sd, NoMsg)

\* in INCLUDE the handler calls IncludeFile(preprocessor_pair.second); the
\* caller of this operator runs the call and clears the argument after it
OnGreater(f, sd, c) ==
    CASE f.parse_action = "STRING_VALUE" -> Out(AddValue(f, c), sd, NoMsg)
      [] f.parse_action = "INCLUDE" ->
             [Out(f, sd, NoMsg) EXCEPT !.inc = f.pp_second]
      [] OTHER -> Out(f, sd, NoMsg)

\* a '[' that leaves the active section as it is
OnOpenBracket_KeepPtr(f, sd, c) ==
    CASE InComment(f) -> Out(f, sd, NoMsg)
      [] f.parse_action = "NEW_LINE" ->
             Out([f EXCEPT !.ignore_current_spaces = FALSE,
                           !.parse_action = "SECTION",
                           !.section = <<>>], sd, NoMsg)
      [] f.parse_action = "STRING_VALUE" -> Out(AddValue(f, c), sd, NoMsg)
      [] OTHER -> Fail(f, sd, "Section naming parse error")

OnOpenBracket(f, sd, c) ==
    CASE InComment(f) -> Out(f, sd, NoMsg)
      [] f.parse_action = "NEW_LINE" ->
             Out([f EXCEPT !.ignore_current_spaces = FALSE,
                           !.parse_action = "SECTION",
                           !.section = <<>>,
                           !.section_ptr = nullptr], sd, NoMsg)
      [] f.parse_action = "STRING_VALUE" -> Out(AddValue(f, c), sd, NoMsg)
      [] OTHER -> Fail(f, sd, "Section naming parse error")

\* case ']' taking the address of the map entry whether or not it was
\* inserted
OnCloseBracket_AlwaysPoint(f, sd, c) ==
    CASE InComment(f) -> Out(f, sd, NoMsg)
      [] f.parse_action = "SECTION" ->
             Out([f EXCEPT !.section_ptr = f.section,
                           !.ignore_current_spaces = TRUE],
                 IF f.section \notin DOMAIN sd
                 THEN MapPut(sd, f.section, Section) ELSE sd,
                 IF f.section \notin DOMAIN sd
                 THEN NoMsg ELSE "Section already exist.")
      [] f.parse_action = "STRING_VALUE" -> Out(AddValue(f, c), sd, NoMsg)
      [] OTHER -> Fail(f, sd, "Section naming parse error")

OnCloseBracket(f, sd, c) ==
    CASE InComment(f) -> Out(f, sd, NoMsg)
      [] f.parse_action = "SECTION" ->
             IF f.section \notin DOMAIN sd
             THEN Out([f EXCEPT !.section_ptr = f.section,
                                !.ignore_current_spaces = TRUE],
                      MapPut(sd, f.section, Section), NoMsg)
             ELSE Out([f EXCEPT !.ignore_current_spaces = TRUE], sd,
                      "Section already exist.")
      [] f.parse_action = "STRING_VALUE" -> Out(AddValue(f, c), sd, NoMsg)
      [] OTHER -> Fail(f, sd, "Section naming parse error")

OnComma(f, sd, c) ==
    CASE InComment(f) -> Out(f, sd, NoMsg)
      [] f.parse_action = "INHERITANCE" -> PushInheritance(f, sd)
      [] f.parse_action = "ATTRIBUTE" -> PushAttribute(f, sd)
      [] f.parse_action \in {"STRING_VALUE", "VALUE_ARRAY"} ->
             Out(AddValue(f, c), sd, NoMsg)
      [] f.parse_action = "VALUE" ->
             Out(AddValue(Goto(f, "VALUE_ARRAY"), c), sd, NoMsg)
      [] OTHER -> Fail(f, sd, "Enumeration error")

OnColon(f, sd, c) ==
    CASE InComment(f) -> Out(f, sd, NoMsg)
      [] f.parse_action = "SECTION" -> Out(Goto(f, "INHERITANCE"), sd, NoMsg)
      [] f.parse_action = "STRING_VALUE" -> Out(AddValue(f, c), sd, NoMsg)
      [] OTHER -> Fail(f, sd, "Inheritance error")

OnEquals(f, sd, c) ==
    CASE InComment(f) -> Out(f, sd, NoMsg)
      [] f.parse_action = "SECTION" -> Out(Goto(f, "ATTRIBUTE"), sd, NoMsg)
      [] f.parse_action = "INHERITANCE" ->
             LET r == PushInheritance(f, sd)
             IN  [r EXCEPT !.f.parse_action = "ATTRIBUTE"]
      [] f.parse_action = "KEY" ->
             IF f.section_ptr # nullptr
             THEN IF f.key \notin DOMAIN sd[f.section_ptr].values
                  THEN Out(Goto(f, "VALUE"),
                           [sd EXCEPT ![f.section_ptr].values =
                                          MapPut(@, f.key, <<>>)],
                           NoMsg)
                  ELSE Out(Goto(f, "VALUE"), sd, "Key already exist.")
             ELSE Out(Goto(f, "VALUE"), sd, NoMsg)
      [] f.parse_action = "STRING_VALUE" -> Out(AddValue(f, c), sd, NoMsg)
      [] OTHER -> Fail(f, sd, "Set value error")

\* default: of the switch; also taken by the value file.get() returns at
\* the end of the stream
\* a default case that commits a pending assignment at the end of input
OnDefault_CommitAtEOF(f, sd, c) ==
    IF c = EOF /\ f.parse_action \in {"VALUE", "VALUE_ARRAY"}
               /\ f.section_ptr # nullptr
    THEN Out([f EXCEPT !.key = <<>>, !.value = <<>>],
             [sd EXCEPT ![f.section_ptr].values = MapPut(@, f.key, f.value)],
             NoMsg)
    ELSE CASE InComment(f) -> Out(f, sd, NoMsg)
          [] f.parse_action = "NEW_LINE" ->
                 Out([f EXCEPT !.parse_action = "KEY", !.key = Append(@, c)],
                     sd, NoMsg)
          [] f.parse_action = "PREPROCESSOR" ->
                 Out([f EXCEPT !.pp_first = Append(@, c)], sd, NoMsg)
          [] f.parse_action = "INCLUDE" ->
                 Out([f EXCEPT !.pp_second = Append(@, c)], sd, NoMsg)
          [] f.parse_action = "SECTION" ->
                 Out([f EXCEPT !.section = Append(@, c)], sd, NoMsg)
          [] f.parse_action = "INHERITANCE" ->
                 Out([f EXCEPT !.inheritance = Append(@, c)], sd, NoMsg)
          [] f.parse_action = "ATTRIBUTE" ->
                 Out([f EXCEPT !.attribute = Append(@, c)], sd, NoMsg)
          [] f.parse_action = "KEY" ->
                 Out([f EXCEPT !.key = Append(@, c)], sd, NoMsg)
          [] f.parse_action \in {"VALUE", "VALUE_ARRAY", "STRING_VALUE"} ->
                 Out(AddValue(f, c), sd, NoMsg)
          [] OTHER -> Fail(f, sd, "Invalid character error")

OnDefault(f, sd, c) ==
    CASE InComment(f) -> Out(f, sd, NoMsg)
      [] f.parse_action = "NEW_LINE" ->
             Out([f EXCEPT !.parse_action = "KEY", !.key = Append(@, c)],
                 sd, NoMsg)
      [] f.parse_action = "PREPROCESSOR" ->
             Out([f EXCEPT !.pp_first = Append(@, c)], sd, NoMsg)
      [] f.parse_action = "INCLUDE" ->
             Out([f EXCEPT !.pp_second = Append(@, c)], sd, NoMsg)
      [] f.parse_action = "SECTION" ->
             Out([f EXCEPT !.section = Append(@, c)], sd, NoMsg)
      [] f.parse_action = "INHERITANCE" ->
             Out([f EXCEPT !.inheritance = Append(@, c)], sd, NoMsg)
      [] f.parse_action = "ATTRIBUTE" ->
             Out([f EXCEPT !.attribute = Append(@, c)], sd, NoMsg)
      [] f.parse_action = "KEY" ->
             Out([f EXCEPT !.key = Append(@, c)], sd, NoMsg)
      [] f.parse_action \in {"VALUE", "VALUE_ARRAY", "STRING_VALUE"} ->
             Out(AddValue(f, c), sd, NoMsg)
      [] OTHER -> Fail(f, sd, "Invalid character error")

\* one iteration of the read loop on the byte c
Step(f, sd, c) ==
    CASE f.escape -> OnEscape(f, sd, c)
      [] c = comment_character -> OnComment(f, sd, c)
      [] c = comment_multiline -> OnMultiline(f, sd, c)
      [] c \in {" ", "\t"} -> OnSpace(f, sd, c)
      [] c = "\\" -> OnBackslash(f, sd, c)
      [] c = "\"" -> OnQuote(f, sd, c)
      [] c = "#" -> OnHash(f, sd, c)
      [] c = "\n" -> OnNewline(f, sd, c)
      [] c = "<" -> OnLess(f, sd, c)
      [] c = ">" -> OnGreater(f, sd, c)
      [] c = "[" -> OnOpenBracket(f, sd, c)
      [] c = "]" -> OnCloseBracket(f, sd, c)
      [] c = "," -> OnComma(f, sd, c)
      [] c = ":" -> OnColon(f, sd, c)
      [] c = "=" -> OnEquals(f, sd, c)
      [] OTHER -> OnDefault(f, sd, c)

(***************************************************************************)
(* The lookup engine.                                                      *)
(***************************************************************************)
RECURSIVE InheritanceWalk(_, _, _, _)
\* the for loop of getValueFromInheritance from position i on
InheritanceWalk(sd, inheritances, key, i) ==
    IF i > Len(inheritances)
    THEN dummy_str
    ELSE IF inheritances[i] \in DOMAIN sd
            /\ key \in DOMAIN sd[inheritances[i]].values
         THEN sd[inheritances[i]].values[key]
         ELSE InheritanceWalk(sd, inheritances, key, i + 1)

RECURSIVE Bases(_, _, _)
\* the inheritance lists of the sections named in inheritances[i..], joined
Bases(sd, inheritances, i) ==
    IF i > Len(inheritances) THEN <<>>
    ELSE (IF inheritances[i] \in DOMAIN sd
          THEN sd[inheritances[i]].inheritances ELSE <<>>)
         \o Bases(sd, inheritances, i + 1)

\* getValueFromInheritance walking the bases of the bases as well
getValueFromInheritance_Deep(sd, sec, key) ==
    InheritanceWalk(sd, sec.inheritances \o Bases(sd, sec.inheritances, 1),
                    key, 1)

getValueFromInheritance(sd, sec, key) ==
    InheritanceWalk(sd, sec.inheritances, key, 1)

\* getString consulting the inheritance list before the section's own values
getString_InheritedFirst(sd, section, key, default_value) ==
    IF section \in DOMAIN sd
    THEN LET value == getValueFromInheritance(sd, sd[section], key)
         IN  IF value # <<>> THEN value
             ELSE IF key \in DOMAIN sd[section].values
                  THEN sd[section].values[key]
                  ELSE default_value
    ELSE default_value

getString(sd, section, key, default_value) ==
    IF section \in DOMAIN sd
    THEN IF key \in DOMAIN sd[section].values
         THEN sd[section].values[key]
         ELSE LET value == getValueFromInheritance(sd, sd[section], key)
              IN  IF value # <<>> THEN value ELSE default_value
    ELSE default_value

RECURSIVE to_string(_)
\* std::to_string of a non-negative integer
to_string(n) ==
    IF n < 10 THEN <<Digits[n + 1]>>
    ELSE Append(to_string(n \div 10), Digits[(n % 10) + 1])

(***************************************************************************)
(* The serializer.                                                         *)
(***************************************************************************)
RECURSIVE JoinNames(_, _)
\* the names of list from position i on, separated by ", "
JoinNames(list, i) ==
    IF i > Len(list) THEN <<>>
    ELSE (IF i > 1 THEN <<",", " ">> ELSE <<>>) \o list[i]
         \o JoinNames(list, i + 1)

RECURSIVE ValueLines(_, _, _)
\* the "key = value" lines of the map values, in the order keys, from i on
ValueLines(values, keys, i) ==
    IF i > Len(keys) THEN <<>>
    ELSE keys[i] \o <<" ", "=", " ">> \o values[keys[i]] \o <<"\n">>
         \o ValueLines(values, keys, i + 1)

\* what save() writes for one section
SectionText(name, sec, keys) ==
    <<"[">> \o name \o <<"]">>
    \o (IF sec.inheritances # <<>>
        THEN <<" ", ":", " ">> \o JoinNames(sec.inheritances, 1) ELSE <<>>)
    \o (IF sec.attributes # <<>>
        THEN <<" ", "=", " ">> \o JoinNames(sec.attributes, 1) ELSE <<>>)
    \o <<"\n">>
    \o ValueLines(sec.values, keys, 1)
    \o <<"\n">>

RECURSIVE SaveText(_, _, _, _)
\* the bytes save() writes when the iteration of _section_data yields the
\* sections in the order order and the iteration of the values of section s
\* yields the keys in the order key_order[s]
SaveText(sd, order, key_order, i) ==
    IF i > Len(order) THEN <<>>
    ELSE SectionText(order[i], sd[order[i]], key_order[order[i]])
         \o SaveText(sd, order, key_order, i + 1)

\* the orders in which an unordered_map with the key set S can be iterated
IterationOrders(S) ==
    {p \in [1..Cardinality(S) -> S] :
        \A i, j \in 1..Cardinality(S) : i # j => p[i] # p[j]}

(***************************************************************************)
(* Inputs.                                                                 *)
(***************************************************************************)
\* A file is read as a sequence of chunks of bytes; a chunk is a piece of
\* file text, one or two lines long.
ChA == <<"[", "a", "]", "\n", "k", "=", "v", "\n">>
ChA0 == <<"[", "a", "]", "\n", "k", "=", "\n">>
ChB == <<"[", "b", "]", "\n", "k", "=", "w", "\n">>
ChBA == <<"[", "b", "]", " ", ":", " ", "a", "\n">>
ChCB == <<"[", "c", "]", ":", "b", "\n">>
ChCAB == <<"[", "c", "]", ":", "a", ",", "b", "\n">>
ChK == <<"k", " ", "=", " ", "w", "\n">>
ChDup == <<"[", "a", "]", ":", "b", "=", "t", "\n">>
ChBad == <<"[", "a", "!", "]", "\n">>
ChInc == <<"#", "i", "n", "c", "l", "u", "d", "e", " ", "<", "p", ">", "\n">>
\* s = "[],;#<>:=| <tab>\\\n\"\'z" with the four escapes spelled out
ChStr == <<"s", "=", "\"", "[", "]", ",", ";", "#", "<", ">", ":", "=", "|",
           " ", "\t", "\\", "\\", "\\", "n", "\\", "\"", "\\", "'", "z",
           "\"", "\n">>

ChOpen == <<"[", "b", "\n">>
Chunks == {ChA, ChA0, ChB, ChBA, ChCB, ChCAB, ChK, ChDup, ChBad, ChInc,
           ChStr, ChOpen}

\* arguments of the API calls
FilePaths == {<<"f">>, <<"p">>}
BasePaths == {<<"d", "/">>}
Names == {<<"a">>, <<"b">>, <<"c">>}
Keys == {<<"k">>}
Defaults == {<<"d">>}
SetValues == {24}
SavePaths == {<<"o">>}

(***************************************************************************)
(* The state.                                                              *)
(***************************************************************************)
VARIABLES
    section_data,   \* _section_data: section name -> Section
    current_file,   \* _current_file
    base_path,      \* _base_path
    stack,          \* the active load() frames, the innermost last
    msg,            \* what the last step handed to _msg_functor
    ret,            \* the last getString call and its result
    fuel,           \* chunks of input still to be read
    input,          \* text-level specification: the lines of the file
    written         \* the path and the bytes the last save call wrote

vars == <<section_data, current_file, base_path, stack, msg, ret, fuel,
          input, written>>

NoRet == <<>>
NoFile == <<>>

Init ==
    /\ section_data = [x \in {} |-> Section]
    /\ current_file = <<>>
    /\ base_path = <<>>
    /\ stack = <<>>
    /\ msg = NoMsg
    /\ ret = NoRet
    /\ fuel = MaxChunks
    /\ input = <<>>
    /\ written = NoFile

Top == stack[Len(stack)]
SetTop(st, f) == [st EXCEPT ![Len(st)] = f]

\* setBasePath
SetBasePath(path) ==
    /\ stack = <<>>
    /\ base_path # path
    /\ base_path' = path
    /\ msg' = NoMsg
    /\ ret' = NoRet
    /\ written' = NoFile
    /\ UNCHANGED <<section_data, current_file, stack, fuel, input>>

\* a load that reports the failure to open the file and reads on
Load_NoReturn(file_path, good) ==
    /\ stack = <<>>
    /\ current_file' = file_path
    /\ stack' = <<NewFrame(file_path)>>
    /\ msg' = IF good THEN NoMsg ELSE "Cannot open file"
    /\ ret' = NoRet
    /\ written' = NoFile
    /\ UNCHANGED <<section_data, base_path, fuel, input>>

\* load() called by the application, up to the start of the read loop
Load(file_path, good) ==
    /\ stack = <<>>
    /\ current_file' = file_path
    /\ IF good
       THEN /\ stack' = <<NewFrame(file_path)>>
            /\ msg' = NoMsg
       ELSE /\ stack' = stack
            /\ msg' = "Cannot open file"
    /\ ret' = NoRet
    /\ written' = NoFile
    /\ UNCHANGED <<section_data, base_path, fuel, input>>

\* an include that is put aside until the includer has been read
Consume_Deferred(c, rest, good) ==
    LET r == Step([Top EXCEPT !.rest = rest], section_data, c)
    IN  /\ section_data' = r.sd
        /\ ret' = NoRet
        /\ written' = NoFile
        /\ IF r.inc = NoInclude
           THEN /\ stack' = SetTop(stack, r.f)
                /\ msg' = r.msg
                /\ good
                /\ UNCHANGED current_file
           ELSE \* IncludeFile: load(_base_path + path)
                IF good
                THEN /\ Len(stack) < MaxDepth
                     /\ current_file' = base_path \o r.inc
                     /\ stack' = Append(SetTop(stack,
                                   NewFrame(base_path \o r.inc)),
                                   [r.f EXCEPT !.saved_file = current_file])
                     /\ msg' = NoMsg
                ELSE /\ current_file' = current_file
                     /\ stack' = SetTop(stack, [r.f EXCEPT !.pp_second = <<>>])
                     /\ msg' = "Cannot open file"

\* an include whose file starts with the active section of the includer
Consume_SharedHandle(c, rest, good) ==
    LET r == Step([Top EXCEPT !.rest = rest], section_data, c)
    IN  /\ section_data' = r.sd
        /\ ret' = NoRet
        /\ written' = NoFile
        /\ IF r.inc = NoInclude
           THEN /\ stack' = SetTop(stack, r.f)
                /\ msg' = r.msg
                /\ good
                /\ UNCHANGED current_file
           ELSE \* IncludeFile: load(_base_path + path)
                IF good
                THEN /\ Len(stack) < MaxDepth
                     /\ current_file' = base_path \o r.inc
                     /\ stack' = Append(SetTop(stack,
                                   [r.f EXCEPT !.saved_file = current_file]),
                                   [NewFrame(base_path \o r.inc) EXCEPT
                                       !.section_ptr = r.f.section_ptr])
                     /\ msg' = NoMsg
                ELSE /\ current_file' = current_file
                     /\ stack' = SetTop(stack, [r.f EXCEPT !.pp_second = <<>>])
                     /\ msg' = "Cannot open file"

\* the effect of one loop iteration of the innermost frame on the byte c,
\* the unread rest of the chunk being rest; good tells whether the file of
\* an include directive can be opened (it plays no part in an iteration
\* without IncludeFile, which is taken once, for good = TRUE)
Consume(c, rest, good) ==
    LET r == Step([Top EXCEPT !.rest = rest], section_data, c)
    IN  /\ section_data' = r.sd
        /\ ret' = NoRet
        /\ written' = NoFile
        /\ IF r.inc = NoInclude
           THEN /\ stack' = SetTop(stack, r.f)
                /\ msg' = r.msg
                /\ good
                /\ UNCHANGED current_file
           ELSE \* IncludeFile: load(_base_path + path)
                IF good
                THEN /\ Len(stack) < MaxDepth
                     /\ current_file' = base_path \o r.inc
                     /\ stack' = Append(SetTop(stack,
                                   [r.f EXCEPT !.saved_file = current_file]),
                                   NewFrame(base_path \o r.inc))
                     /\ msg' = NoMsg
                ELSE /\ current_file' = current_file
                     /\ stack' = SetTop(stack, [r.f EXCEPT !.pp_second = <<>>])
                     /\ msg' = "Cannot open file"

\* one iteration of the read loop
ReadChar ==
    /\ stack # <<>>
    /\ \E good \in BOOLEAN :
         IF Top.rest # <<>>
         THEN /\ Consume(Head(Top.rest), Tail(Top.rest), good)
              /\ UNCHANGED <<base_path, fuel, input>>
         ELSE /\ fuel > 0
              /\ \E ch \in Chunks : Consume(Head(ch), Tail(ch), good)
              /\ fuel' = fuel - 1
              /\ UNCHANGED <<base_path, input>>

\* a return into IncludeFile that leaves _current_file as the included
\* file set it
ReadEOF_NoRestore ==
    /\ stack # <<>>
    /\ Top.rest = <<>>
    /\ LET r == Step(Top, section_data, EOF)
           n == Len(stack)
       IN  /\ section_data' = r.sd
           /\ msg' = r.msg
           /\ IF n > 1
              THEN /\ stack' = SetTop(SubSeq(stack, 1, n - 1),
                                 [stack[n - 1] EXCEPT !.pp_second = <<>>])
                   /\ UNCHANGED current_file
              ELSE /\ stack' = <<>>
                   /\ UNCHANGED current_file
    /\ ret' = NoRet
    /\ written' = NoFile
    /\ UNCHANGED <<base_path, fuel, input>>

\* the last iteration (file.get() returns the end-of-stream value), then
\* file.close() and the return; a return into IncludeFile restores
\* _current_file and clears the include argument
ReadEOF ==
    /\ stack # <<>>
    /\ Top.rest = <<>>
    /\ LET r == Step(Top, section_data, EOF)
           n == Len(stack)
       IN  /\ section_data' = r.sd
           /\ msg' = r.msg
           /\ IF n > 1
              THEN /\ stack' = SetTop(SubSeq(stack, 1, n - 1),
                                 [stack[n - 1] EXCEPT !.pp_second = <<>>])
                   /\ current_file' = stack[n - 1].saved_file
              ELSE /\ stack' = <<>>
                   /\ UNCHANGED current_file
    /\ ret' = NoRet
    /\ written' = NoFile
    /\ UNCHANGED <<base_path, fuel, input>>

\* a set that assigns through operator[] whenever the section exists
set_Create(sd, section, key, value) ==
    IF section \in DOMAIN sd
    THEN [sd |-> [sd EXCEPT ![section].values =
                      MapPut(@, key, to_string(value))],
          msg |-> NoMsg]
    ELSE [sd |-> sd, msg |-> "Section is not exist!"]

\* set<T>(section, key, value): the store and the diagnostic it leaves
set(sd, section, key, value) ==
    IF section \in DOMAIN sd
    THEN IF key \in DOMAIN sd[section].values
         THEN [sd |-> [sd EXCEPT ![section].values =
                           MapPut(@, key, to_string(value))],
               msg |-> NoMsg]
         ELSE [sd |-> sd, msg |-> "Key is not exist!"]
    ELSE [sd |-> sd, msg |-> "Section is not exist!"]

\* a set call of the application
Set(section, key, value) ==
    /\ stack = <<>>
    /\ LET r == set(section_data, section, key, value)
       IN  /\ section_data' = r.sd
           /\ msg' = r.msg
    /\ ret' = NoRet
    /\ written' = NoFile
    /\ UNCHANGED <<current_file, base_path, stack, fuel, input>>

\* a getString call of the application
GetString(section, key, default_value) ==
    /\ stack = <<>>
    /\ ret' = <<section, key, default_value,
                getString(section_data, section, key, default_value)>>
    /\ msg' = NoMsg
    /\ written' = NoFile
    /\ UNCHANGED <<section_data, current_file, base_path, stack, fuel,
                   input>>

\* save(file_path)
Save(file_path) ==
    /\ stack = <<>>
    /\ \E order \in IterationOrders(DOMAIN section_data) :
         \E key_order \in
              [DOMAIN section_data ->
                 UNION {IterationOrders(DOMAIN section_data[s].values) :
                          s \in DOMAIN section_data}] :
           /\ \A s \in DOMAIN section_data :
                key_order[s] \in IterationOrders(DOMAIN section_data[s].values)
           /\ written' = <<file_path,
                           SaveText(section_data, order, key_order, 1)>>
    /\ msg' = NoMsg
    /\ ret' = NoRet
    /\ UNCHANGED <<section_data, current_file, base_path, stack, fuel,
                   input>>

\* saveCurrent()
SaveCurrent == Save(current_file)

Next ==
    \/ \E path \in BasePaths : SetBasePath(path)
    \/ \E p \in FilePaths, good \in BOOLEAN : Load(p, good)
    \/ ReadChar
    \/ ReadEOF
    \/ \E s \in Names, k \in Keys, v \in SetValues : Set(s, k, v)
    \/ \E s \in Names, k \in Keys, d \in Defaults : GetString(s, k, d)
    \/ \E p \in SavePaths : Save(p)
    \/ SaveCurrent

Spec == Init /\ [][Next]_vars

(***************************************************************************)
(* Properties of the lookup engine.                                        *)
(***************************************************************************)
AllDefaults == Defaults \cup {<<>>}

\* the indices of the bases in the inheritance list of s that bind k
BindingBases(s, k) ==
    {i \in 1..Len(section_data[s].inheritances) :
        /\ section_data[s].inheritances[i] \in DOMAIN section_data
        /\ k \in DOMAIN section_data[section_data[s].inheritances[i]].values}

Min(S) == CHOOSE x \in S : \A y \in S : x <= y

\* C1: for a section S of the model and a key K bound in S's own values,
\* getString(S, K, d) is the value bound in S itself, for every default d
\* and whatever the inheritance list of S holds; the result of a getString
\* call of the application is that value too.
C1_OwnValueWins ==
    /\ \A s \in DOMAIN section_data :
         \A k \in DOMAIN section_data[s].values :
           \A d \in AllDefaults :
             getString(section_data, s, k, d) = section_data[s].values[k]
    /\ (/\ ret # NoRet
        /\ ret[1] \in DOMAIN section_data
        /\ ret[2] \in DOMAIN section_data[ret[1]].values)
       => ret[4] = section_data[ret[1]].values[ret[2]]

\* b binds k, its base a binds k to another value, and the application has
\* asked for (b, k)
C1_Witness ==
    /\ ret # NoRet
    /\ ret[1] = <<"b">> /\ ret[2] = <<"k">>
    /\ <<"b">> \in DOMAIN section_data
    /\ section_data[<<"b">>].inheritances = << <<"a">> >>
    /\ <<"k">> \in DOMAIN section_data[<<"b">>].values
    /\ <<"k">> \in DOMAIN section_data[<<"a">>].values
    /\ section_data[<<"a">>].values[<<"k">>]
         # section_data[<<"b">>].values[<<"k">>]

\* C2: for a section S of the model that does not bind K, getString(S, K, d)
\* is the value bound to K in the first section of S's inheritance list that
\* binds K, whatever that value is (the empty string included), and d only
\* when no section of the list binds K.
C2_FirstBindingBase ==
    \A s \in DOMAIN section_data :
      \A k \in Keys :
        \A d \in AllDefaults :
          k \notin DOMAIN section_data[s].values =>
            getString(section_data, s, k, d) =
              IF BindingBases(s, k) = {}
              THEN d
              ELSE section_data[section_data[s].inheritances[
                       Min(BindingBases(s, k))]].values[k]

\* C3: when S does not bind K and no section named in S's inheritance list
\* binds K, getString(S, K, d) is d, even when a base of a base binds K.
C3_DepthOne ==
    /\ \A s \in DOMAIN section_data :
         \A k \in Keys :
           \A d \in AllDefaults :
             (k \notin DOMAIN section_data[s].values
              /\ BindingBases(s, k) = {})
             => getString(section_data, s, k, d) = d
    /\ (/\ ret # NoRet
        /\ ret[1] \in DOMAIN section_data
        /\ ret[2] \notin DOMAIN section_data[ret[1]].values
        /\ BindingBases(ret[1], ret[2]) = {})
       => ret[4] = ret[3]

\* c : b, b : a, only a binds k (to a non-empty value), and the application
\* has asked for (c, k) and got the default
C3_Witness ==
    /\ ret # NoRet
    /\ ret[1] = <<"c">> /\ ret[2] = <<"k">> /\ ret[4] = ret[3]
    /\ {<<"a">>, <<"b">>, <<"c">>} \subseteq DOMAIN section_data
    /\ section_data[<<"c">>].inheritances = << <<"b">> >>
    /\ section_data[<<"b">>].inheritances = << <<"a">> >>
    /\ <<"k">> \notin DOMAIN section_data[<<"c">>].values
    /\ <<"k">> \notin DOMAIN section_data[<<"b">>].values
    /\ <<"k">> \in DOMAIN section_data[<<"a">>].values
    /\ section_data[<<"a">>].values[<<"k">>] # <<>>

(***************************************************************************)
(* Properties of the parser, stated on the steps of the read loop.         *)
(***************************************************************************)
\* the innermost frame is about to read the byte c of its current chunk
Reading(c) == stack # <<>> /\ Top.rest # <<>> /\ Head(Top.rest) = c

\* the characters of a string
Chars(str) == {str[i] : i \in DOMAIN str}

\* C4: when an assignment names a key that is already bound in the active
\* section, the value the key had is retained: the newline that ends the
\* redefining line leaves the key bound to its earlier value.  (A key that
\* is bound to a non-empty value when the newline commits was bound before
\* this line: the '=' of the line itself binds a new key to the empty
\* string.)
C4_FirstSeenValueRetained ==
    [][ (/\ Reading("\n")
         /\ Top.parse_action \in {"VALUE", "VALUE_ARRAY"}
         /\ Top.section_ptr # nullptr
         /\ Top.key \in DOMAIN section_data[Top.section_ptr].values
         /\ section_data[Top.section_ptr].values[Top.key] # <<>>)
        => section_data'[Top.section_ptr].values[Top.key]
             = section_data[Top.section_ptr].values[Top.key] ]_vars

\* C5: a header whose name is already present leaves the section of that
\* name as it is, for the header line and every line of its block, in any
\* frame (primary file, included file, later load).  On the steps:
\*  - '[' at the start of a line clears the active-section handle, and a new
\*    frame starts with a null handle;
\*  - ']' on a name that is present, the handle being null, emits the
\*    diagnostic, changes nothing in the store and leaves the handle null;
\*  - the handle of a frame only ever moves to a section that was not
\*    present before the step;
\*  - a step of the read loop changes no section other than the one the
\*    handle of the innermost frame points to.
C5_DuplicateHeaderKeepsSection ==
    [][ /\ Len(stack') > Len(stack)
           => stack'[Len(stack')].section_ptr = nullptr
        /\ stack # <<>> =>
           LET n == Len(stack) IN
           /\ \A s \in DOMAIN section_data :
                s # Top.section_ptr =>
                  s \in DOMAIN section_data'
                  /\ section_data'[s] = section_data[s]
           /\ (/\ Top.parse_action = "NEW_LINE"
               /\ Len(stack') = n
               /\ stack'[n].parse_action = "SECTION")
              => stack'[n].section_ptr = nullptr
           /\ (/\ Reading("]")
               /\ Top.parse_action = "SECTION"
               /\ Top.section_ptr = nullptr
               /\ Top.section \in DOMAIN section_data)
              => /\ msg' = "Section already exist."
                 /\ section_data' = section_data
                 /\ stack'[n].section_ptr = nullptr
           /\ (/\ Len(stack') = n
               /\ stack'[n].section_ptr # Top.section_ptr
               /\ stack'[n].section_ptr # nullptr)
              => stack'[n].section_ptr \notin DOMAIN section_data ]_vars

\* the header of section a, which holds k = v, has been repeated and the
\* parser is in the middle of the assignment k = w of the repeated block
C5_Witness ==
    /\ stack # <<>>
    /\ Top.section = <<"a">>
    /\ Top.section_ptr = nullptr
    /\ Top.parse_action = "VALUE"
    /\ Top.key = <<"k">> /\ Top.value = <<"w">>
    /\ <<"a">> \in DOMAIN section_data
    /\ section_data[<<"a">>] =
         [inheritances |-> <<>>, attributes |-> <<>>,
          values |-> MapPut(EmptyMap, <<"k">>, <<"v">>)]

\* C7: every name in every inheritance list names a section of the model;
\* an inheritance token that names no section when it is committed (on
\* ',', '=' or the end of the line) is dropped with a diagnostic.
C7_InheritancesExist ==
    /\ [](\A s \in DOMAIN section_data :
            \A i \in 1..Len(section_data[s].inheritances) :
              section_data[s].inheritances[i] \in DOMAIN section_data)
    /\ [][ (/\ (Reading(",") \/ Reading("=") \/ Reading("\n"))
            /\ Top.parse_action = "INHERITANCE"
            /\ Top.section_ptr # nullptr
            /\ Top.inheritance # <<>>
            /\ Top.inheritance \notin DOMAIN section_data)
           => /\ section_data' = section_data
              /\ msg' = "Inherited section is not exist!"
              /\ stack'[Len(stack)].inheritance = <<>> ]_vars

\* the header of b named the base a, which is not present: the token was
\* dropped with the diagnostic
C7_Witness ==
    /\ stack # <<>>
    /\ msg = "Inherited section is not exist!"
    /\ Top.section_ptr = <<"b">>
    /\ Top.inheritance = <<>>
    /\ <<"a">> \notin DOMAIN section_data
    /\ section_data[<<"b">>].inheritances = <<>>

\* C8: every section name, inheritance name, attribute and key stored in
\* the model consists of characters of [A-Za-z0-9_] only.
C8_IdentifierCharacters ==
    \A s \in DOMAIN section_data :
      /\ Chars(s) \subseteq allowed_characters
      /\ \A i \in 1..Len(section_data[s].inheritances) :
           Chars(section_data[s].inheritances[i]) \subseteq allowed_characters
      /\ \A i \in 1..Len(section_data[s].attributes) :
           Chars(section_data[s].attributes[i]) \subseteq allowed_characters
      /\ \A k \in DOMAIN section_data[s].values :
           Chars(k) \subseteq allowed_characters

(***************************************************************************)
(* The text-level specification: load() as a function of the file text.    *)
(***************************************************************************)
RECURSIVE RunChars(_, _, _, _, _, _)
RECURSIVE LoadFile(_, _, _, _, _)

\* the read loop over the bytes chars, from the frame f and the store sd;
\* files is the file system (path -> text), bp the base path, diags the
\* diagnostics emitted so far
RunChars(files, bp, f, sd, diags, chars) ==
    IF chars = <<>>
    THEN [f |-> f, sd |-> sd, diags |-> diags]
    ELSE LET r == Step(f, sd, Head(chars))
             d == IF r.msg = NoMsg THEN diags ELSE Append(diags, r.msg)
         IN  IF r.inc = NoInclude
             THEN RunChars(files, bp, r.f, r.sd, d, Tail(chars))
             ELSE LET sub == LoadFile(files, bp, bp \o r.inc, r.sd, d)
                  IN  RunChars(files, bp, [r.f EXCEPT !.pp_second = <<>>],
                               sub.sd, sub.diags, Tail(chars))

\* load(file_path): the store and the diagnostics when it returns
LoadFile(files, bp, file_path, sd, diags) ==
    IF file_path \notin DOMAIN files
    THEN [sd |-> sd, diags |-> Append(diags, "Cannot open file")]
    ELSE LET r == RunChars(files, bp, Frame, sd, diags, files[file_path])
             e == Step(r.f, r.sd, EOF)
         IN  [sd |-> e.sd,
              diags |-> IF e.msg = NoMsg THEN r.diags
                        ELSE Append(r.diags, e.msg)]

RECURSIVE Flatten(_)
\* the text of a file given as a sequence of lines
Flatten(lines) ==
    IF lines = <<>> THEN <<>> ELSE Head(lines) \o Flatten(Tail(lines))

\* load() of a file with the text chars into a fresh instance, no other
\* file being present
LoadText(chars) ==
    LoadFile(MapPut(EmptyMap, <<"f">>, chars), <<>>, <<"f">>,
             [x \in {} |-> Section], <<>>).sd

LnA == <<"[", "a", "]", "\n">>
LnB == <<"[", "b", "]", "\n">>
LnDup == <<"[", "a", "]", ":", "b", "=", "t", "\n">>
LnCA == <<"[", "c", "]", ":", "a", "\n">>
LnKV == <<"k", "=", "v", "\n">>
LnKey == <<"k", "k", "\n">>
LnErr == <<"k", "=", "v", ":", "\n">>
LnCom == <<"k", "=", "v", ";", "c", "\n">>
LnMul == <<"k", "=", "v", "|", "c", "|", "\n">>
LnC == <<";", "c", "\n">>
LnInc == <<"#", "i", "n", "c", "l", "u", "d", "e", " ", "<", "p", ">", "\n">>
LnPre == <<"#", "i", "n", "c", "\n">>

LnSp == <<"k", " ", "k", "=", "v", "\n">>

LnMS == <<"|", "c", ";", "c", "|", "\n">>

LnEB == <<"k", "=", "v", ":", "|", "|", "[", "b", "]", "\n">>

LnQ == <<"s", "=", "\"", "x", "\n">>

LnEmpty == <<"[", "]", "\n">>

TextLines == {LnA, LnB, LnDup, LnCA, LnKV, LnKey, LnErr, LnCom, LnMul, LnC,
              LnInc, LnPre, LnSp, LnMS, LnEB, LnQ, LnEmpty}

\* the sequences of at most n lines
TextsUpTo(n) == UNION {[1..m -> TextLines] : m \in 0..n}

TextInit ==
    /\ section_data = [x \in {} |-> Section]
    /\ current_file = <<>>
    /\ base_path = <<>>
    /\ stack = <<>>
    /\ msg = NoMsg
    /\ ret = NoRet
    /\ fuel = 0
    /\ input \in TextsUpTo(MaxLines)
    /\ written = NoFile

\* load("f") from the call to the return, the file f holding the lines
\* of input
LoadInput ==
    /\ current_file = <<>>
    /\ LET r == LoadFile(MapPut(EmptyMap, <<"f">>, Flatten(input)),
                         base_path, <<"f">>, section_data, <<>>)
       IN  /\ section_data' = r.sd
           /\ msg' = IF r.diags = <<>> THEN NoMsg
                     ELSE r.diags[Len(r.diags)]
    /\ current_file' = <<"f">>
    /\ UNCHANGED <<base_path, stack, ret, fuel, input, written>>

TextNext == LoadInput

TextSpec == TextInit /\ [][TextNext]_vars

\* load("f") has returned
Loaded == current_file = <<"f">>

(***************************************************************************)
(* Properties of load() as a function of the text.                         *)
(***************************************************************************)
\* the well-formed header and assignment lines
CleanLines == {LnA, LnB, LnDup, LnCA, LnKV}

RECURSIVE UpTo(_, _)
\* the characters of chars before the first occurrence of c
UpTo(chars, c) ==
    IF chars = <<>> \/ Head(chars) = c THEN <<>>
    ELSE <<Head(chars)>> \o UpTo(Tail(chars), c)

IsHeader(line) == line # <<>> /\ Head(line) = "["
HeaderName(line) == UpTo(Tail(line), "]")

RECURSIVE RemoveDuplicateBlocks(_, _, _)
\* lines without the headers whose name an earlier header of the text has
\* (seen) and without the lines of their blocks
RemoveDuplicateBlocks(lines, seen, skipping) ==
    IF lines = <<>> THEN <<>>
    ELSE LET l == Head(lines) IN
         IF IsHeader(l)
         THEN IF HeaderName(l) \in seen
              THEN RemoveDuplicateBlocks(Tail(lines), seen, TRUE)
              ELSE <<l>> \o RemoveDuplicateBlocks(Tail(lines),
                                seen \cup {HeaderName(l)}, FALSE)
         ELSE IF skipping
              THEN RemoveDuplicateBlocks(Tail(lines), seen, TRUE)
              ELSE <<l>> \o RemoveDuplicateBlocks(Tail(lines), seen, FALSE)

\* C6: a duplicate header and the lines of its block have no effect: the
\* model after load is the model of the same text without the duplicate
\* header lines and their blocks.
C6_DuplicateBlockSwallowed ==
    (Loaded /\ \A i \in DOMAIN input : input[i] \in CleanLines)
    => section_data =
         LoadText(Flatten(RemoveDuplicateBlocks(input, {}, FALSE)))

\* the diagnostics of the syntactic violations (the ones that set ERROR)
SyntaxErrors ==
    { "Space in wrong place", "Unexpected escape-symbol",
      "Preprocessor parse error", "New line parse error",
      "Section naming parse error", "Enumeration error",
      "Inheritance error", "Set value error", "Invalid character error" }

\* the lines without line i
RemoveAt(lines, i) ==
    SubSeq(lines, 1, i - 1) \o SubSeq(lines, i + 1, Len(lines))

\* line i of lines has a syntactic violation: the read loop, arriving at
\* the line after the lines before it, reports one while reading it
Offending(lines, i) ==
    LET files == MapPut(EmptyMap, <<"f">>, <<>>)
        before == RunChars(files, <<>>, Frame, [x \in {} |-> Section], <<>>,
                           Flatten(SubSeq(lines, 1, i - 1)))
        after == RunChars(files, <<>>, before.f, before.sd, <<>>, lines[i])
    IN  \E j \in DOMAIN after.diags : after.diags[j] \in SyntaxErrors

\* C9: a line with a syntactic violation is abandoned: the model after load
\* is the model of the same text without that line.
C9_OffendingLineAbandoned ==
    Loaded =>
      \A i \in DOMAIN input :
        Offending(input, i) =>
          section_data = LoadText(Flatten(RemoveAt(input, i)))

RECURSIVE StripComments(_, _, _)
\* chars without its comment regions; mode is "text", "line" (after ';') or
\* "block" (between two '|'); the newline that ends a ';' region is kept
\* when keep_newline and removed with the region otherwise
StripComments(chars, mode, keep_newline) ==
    IF chars = <<>> THEN <<>>
    ELSE LET c == Head(chars)
             t == Tail(chars)
         IN  CASE mode = "line" ->
                    IF c = "\n"
                    THEN (IF keep_newline THEN <<c>> ELSE <<>>)
                         \o StripComments(t, "text", keep_newline)
                    ELSE StripComments(t, "line", keep_newline)
               [] mode = "block" ->
                    StripComments(t, IF c = comment_multiline
                                     THEN "text" ELSE "block", keep_newline)
               [] OTHER ->
                    CASE c = comment_character ->
                             StripComments(t, "line", keep_newline)
                      [] c = comment_multiline ->
                             StripComments(t, "block", keep_newline)
                      [] OTHER ->
                             <<c>> \o StripComments(t, "text", keep_newline)

\* C10: the text without its comment regions (';' to the end of the line,
\* '|' to '|') parses to the same model; the end of the line is taken
\* either way, as part of the ';' region or not.
C10_CommentInvisibility ==
    Loaded =>
      \/ section_data = LoadText(StripComments(Flatten(input), "text", TRUE))
      \/ section_data = LoadText(StripComments(Flatten(input), "text", FALSE))

(***************************************************************************)
(* Quoted values.                                                          *)
(***************************************************************************)
\* the structural characters that are literal between quotes
Literals == {"[", "]", ",", ";", "#", "<", ">", ":", "=", "|", " ", "\t"}

\* the byte an escape stands for
Decoded(c) == IF c = "n" THEN "\n" ELSE c

\* the decoded form of the text between the quotes of ChStr
StrValue == <<"[", "]", ",", ";", "#", "<", ">", ":", "=", "|", " ", "\t",
              "\\", "\n", "\"", "'", "z">>

\* C11: between the quotes of a value a structural character is appended to
\* the value as it is, a backslash followed by one of \ n " ' appends the one
\* byte it stands for, and none of them changes the parse state, emits a
\* diagnostic or touches the store; the newline after the closing quote
\* stores the value accumulated so.
C11_StringLiteralFidelity ==
    [][ stack # <<>> =>
        LET n == Len(stack)
            f == Top
        IN  /\ (f.parse_action = "STRING_VALUE" /\ f.rest # <<>>) =>
               LET c == Head(f.rest)
                   g == [f EXCEPT !.rest = Tail(f.rest)]
               IN  /\ (~f.escape /\ c \in Literals) =>
                         /\ stack' = SetTop(stack, AddValue(g, c))
                         /\ section_data' = section_data
                         /\ msg' = NoMsg
                   /\ (~f.escape /\ c = "\\") =>
                         /\ stack' = SetTop(stack, [g EXCEPT !.escape = TRUE])
                         /\ section_data' = section_data
                         /\ msg' = NoMsg
                   /\ (f.escape /\ c \in {"\\", "n", "\"", "'"}) =>
                         /\ stack' = SetTop(stack,
                                [AddValue(g, Decoded(c)) EXCEPT
                                     !.escape = FALSE])
                         /\ section_data' = section_data
                         /\ msg' = NoMsg
            /\ (/\ Reading("\n")
                /\ f.parse_action = "VALUE"
                /\ f.section_ptr # nullptr) =>
               section_data'[f.section_ptr].values[f.key] = f.value ]_vars

\* the assignment of ChStr has been committed to section a: the value is
\* the decoded text
C11_Witness ==
    /\ <<"a">> \in DOMAIN section_data
    /\ <<"s">> \in DOMAIN section_data[<<"a">>].values
    /\ section_data[<<"a">>].values[<<"s">>] = StrValue

(***************************************************************************)
(* save() followed by load().                                              *)
(***************************************************************************)
\* no value of the model holds a comma, a line break, a double quote,
\* whitespace or a comment character
Canonical(sd) ==
    \A s \in DOMAIN sd :
      \A k \in DOMAIN sd[s].values :
        Chars(sd[s].values[k]) \cap {",", "\n", "\"", " ", "\t", ";", "|"} = {}

\* C12: for a model whose values hold none of these characters, loading the
\* bytes save() wrote into a fresh instance yields the model again,
\* whatever the order in which save() iterated the sections.
C12_RoundTrip ==
    (written # NoFile /\ Canonical(section_data))
    => LoadText(written[2]) = section_data

(***************************************************************************)
(* Includes.                                                               *)
(***************************************************************************)
\* the innermost frame is about to commit a pending inheritance token
CommitsBase ==
    /\ stack # <<>>
    /\ Reading(",") \/ Reading("=") \/ Reading("\n")
    /\ Top.parse_action = "INHERITANCE"
    /\ Top.section_ptr # nullptr
    /\ Top.inheritance # <<>>

\* C13: includes are read in pre-order.  While an included file is read
\* the frames of its includers stand still; a file is entered only on the
\* '>' of an include directive, with fresh locals and the model as the
\* includer left it; it is left only at its end, and the includer goes on
\* right after the directive with the model as the included file left it.
\* An inheritance token is accepted exactly if its section is in the model
\* at that moment, whichever file defined it.
C13_PreOrder ==
    [][ stack # <<>> =>
          LET n == Len(stack) IN
          /\ Len(stack') \in {n - 1, n, n + 1}
          /\ Len(stack') >= n => \A i \in 1..(n - 1) : stack'[i] = stack[i]
          /\ Len(stack') = n + 1 =>
               /\ Reading(">") /\ Top.parse_action = "INCLUDE"
               /\ stack'[n + 1] = NewFrame(base_path \o Top.pp_second)
               /\ stack'[n] = [Top EXCEPT !.rest = Tail(Top.rest),
                                          !.saved_file = current_file]
               /\ section_data' = section_data
          /\ Len(stack') = n - 1 =>
               /\ Top.rest = <<>>
               /\ n > 1 =>
                    /\ \A i \in 1..(n - 2) : stack'[i] = stack[i]
                    /\ stack'[n - 1] = [stack[n - 1] EXCEPT !.pp_second = <<>>]
          /\ CommitsBase =>
               IF Top.inheritance \in DOMAIN section_data
               THEN section_data'[Top.section_ptr].inheritances =
                        Append(section_data[Top.section_ptr].inheritances,
                               Top.inheritance)
               ELSE /\ section_data' = section_data
                    /\ msg' = "Inherited section is not exist!" ]_vars

\* the included file has declared b with the base a, which the includer
\* defined before the directive
C13_Witness ==
    /\ Len(stack) = 2
    /\ stack[1].parse_action = "INCLUDE"
    /\ Top.section_ptr = <<"b">>
    /\ <<"b">> \in DOMAIN section_data
    /\ section_data[<<"b">>].inheritances = << <<"a">> >>

\* the number of entries of diags that are d
RECURSIVE Count(_, _)
Count(diags, d) ==
    IF diags = <<>> THEN 0
    ELSE (IF Head(diags) = d THEN 1 ELSE 0) + Count(Tail(diags), d)

\* the read loop, arriving at line i of lines in NEW_LINE, calls load on
\* the path p exactly once while it reads the line: with no file present
\* exactly one call fails to open its file, and with the file p present
\* none does
IncludesOnce(lines, i) ==
    LET none == MapPut(EmptyMap, <<"f">>, <<>>)
        some == MapPut(none, <<"p">>, <<"[", "p", "]", "\n">>)
        before == RunChars(none, <<>>, Frame, [x \in {} |-> Section], <<>>,
                           Flatten(SubSeq(lines, 1, i - 1)))
        missing == RunChars(none, <<>>, before.f, before.sd, <<>>, lines[i])
        present == RunChars(some, <<>>, before.f, before.sd, <<>>, lines[i])
    IN  before.f.parse_action = "NEW_LINE"
        => /\ Count(missing.diags, "Cannot open file") = 1
           /\ Count(present.diags, "Cannot open file") = 0

\* C14: every line "#include <p>" that begins in NEW_LINE calls load once
\* on base_path + "p", whatever lines precede it.
C14_DirectiveIncludes ==
    Loaded => \A i \in DOMAIN input : input[i] = LnInc => IncludesOnce(input, i)

\* the file an include directive names is one of the files being read
Cyclic ==
    /\ stack # <<>>
    /\ Reading(">")
    /\ Top.parse_action = "INCLUDE"
    /\ \E i \in 1..Len(stack) : stack[i].file_path = base_path \o Top.pp_second

\* C15: the include stack is bounded: a directive that names a file
\* already on the include stack does not enter the file again and emits a
\* diagnostic.
C15_IncludeStackBounded ==
    [][ Cyclic => (Len(stack') = Len(stack) /\ msg' # NoMsg) ]_vars

\* C16: the current file path is the path of the file being read, and when
\* load(P) returns it is P: leaving an included file restores the path of
\* the includer, an include that cannot be opened leaves it as it was, and
\* no other operation (save and saveCurrent included) changes it, so
\* saveCurrent writes to P.
C16_CurrentFileRestored ==
    /\ [](stack # <<>> => current_file = Top.file_path)
    /\ [][ /\ (stack # <<>> /\ stack' = <<>>)
              => current_file' = stack[1].file_path
           /\ (stack # <<>> /\ Len(stack') = Len(stack))
              => current_file' = current_file
           /\ (stack = <<>> /\ stack' = <<>> /\ msg' # "Cannot open file")
              => current_file' = current_file
           /\ (stack = <<>> /\ written' # NoFile /\ written'[1] \notin SavePaths)
              => written'[1] = current_file ]_vars

\* load("f") has read an included file to its end and is back in f, right
\* after the directive
C16_Witness ==
    /\ Len(stack) = 1
    /\ Top.file_path = <<"f">>
    /\ Top.saved_file = <<"f">>
    /\ Top.parse_action = "INCLUDE"
    /\ Top.pp_second = <<>>
    /\ Top.rest = <<"\n">>
    /\ msg # "Cannot open file"
    /\ current_file = <<"f">>

\* C17: a file that cannot be opened changes nothing in the model: the
\* call reports the diagnostic and returns at once.  For the primary file
\* no read loop starts; for an included file the includer keeps its locals
\* and goes on with the bytes after the directive.
C17_OpenFailureChangesNothing ==
    [][ msg' = "Cannot open file" =>
          /\ section_data' = section_data
          /\ IF stack = <<>>
             THEN stack' = <<>>
             ELSE /\ Reading(">") /\ Top.parse_action = "INCLUDE"
                  /\ stack' = SetTop(stack, [Top EXCEPT !.rest = Tail(Top.rest),
                                                        !.pp_second = <<>>])
                  /\ current_file' = current_file ]_vars

\* an include of the file f, which holds section a, has failed to open
C17_Witness ==
    /\ msg = "Cannot open file"
    /\ Len(stack) = 1
    /\ Top.parse_action = "INCLUDE"
    /\ Top.rest = <<"\n">>
    /\ <<"a">> \in DOMAIN section_data
    /\ section_data[<<"a">>].values = MapPut(EmptyMap, <<"k">>, <<"v">>)

(***************************************************************************)
(* set.                                                                    *)
(***************************************************************************)
\* C18: set replaces the raw value only when the section exists and the
\* key is bound in the section's own values; otherwise (the key bound in a
\* base only, or the section absent) it emits a diagnostic and leaves the
\* model as it is.  It never creates a section or a key and never changes
\* an inheritance or attribute list.
C18_SetReplacesOnly ==
    /\ [](\A section \in Names, key \in Keys, value \in SetValues :
            LET r == set(section_data, section, key, value) IN
            /\ DOMAIN r.sd = DOMAIN section_data
            /\ \A s \in DOMAIN section_data :
                 /\ r.sd[s].inheritances = section_data[s].inheritances
                 /\ r.sd[s].attributes = section_data[s].attributes
                 /\ DOMAIN r.sd[s].values = DOMAIN section_data[s].values
                 /\ \A k \in DOMAIN section_data[s].values :
                      r.sd[s].values[k] =
                        IF s = section /\ k = key THEN to_string(value)
                        ELSE section_data[s].values[k]
            /\ (section \notin DOMAIN section_data
                \/ key \notin DOMAIN section_data[section].values)
               => (r.sd = section_data /\ r.msg # NoMsg))
    /\ [][ (stack = <<>> /\ stack' = <<>>) =>
             /\ DOMAIN section_data' = DOMAIN section_data
             /\ \A s \in DOMAIN section_data :
                  /\ section_data'[s].inheritances = section_data[s].inheritances
                  /\ section_data'[s].attributes = section_data[s].attributes
                  /\ DOMAIN section_data'[s].values = DOMAIN section_data[s].values
             /\ msg' \in {"Key is not exist!", "Section is not exist!"}
                => section_data' = section_data ]_vars

\* set has been refused for a key that section b does not bind itself
\* although its base a binds it
C18_Witness ==
    /\ stack = <<>>
    /\ msg = "Key is not exist!"
    /\ <<"a">> \in DOMAIN section_data /\ <<"b">> \in DOMAIN section_data
    /\ section_data[<<"b">>].inheritances = << <<"a">> >>
    /\ section_data[<<"a">>].values = MapPut(EmptyMap, <<"k">>, <<"v">>)
    /\ section_data[<<"b">>].values = EmptyMap

(***************************************************************************)
(* Lifetime of sections.                                                   *)
(***************************************************************************)
\* C19: no operation destroys a section or unbinds a key: over every step
\* (load, include, set, save, query) a section that is present stays
\* present, a key bound in a section stays bound in it, and the number of
\* sections does not decrease.
C19_NothingDestroyed ==
    [][ /\ \A s \in DOMAIN section_data :
             /\ s \in DOMAIN section_data'
             /\ DOMAIN section_data[s].values
                  \subseteq DOMAIN section_data'[s].values
        /\ Cardinality(DOMAIN section_data')
             >= Cardinality(DOMAIN section_data) ]_vars

\* after a first load defined a with k and set replaced the value of k, a
\* second load has added section b
C19_Witness ==
    /\ Len(stack) = 1
    /\ DOMAIN section_data = {<<"a">>, <<"b">>}
    /\ DOMAIN section_data[<<"a">>].values = {<<"k">>}
    /\ section_data[<<"a">>].values[<<"k">>] = to_string(24)
    /\ Top.section_ptr = <<"b">>

(***************************************************************************)
(* The active section.                                                     *)
(***************************************************************************)
\* C20: opening a header invalidates the active section.  The step that
\* consumes '[' in NEW_LINE leaves the handle null; while the handle is
\* null no section of the model is written to, and the handle becomes
\* non-null again only when a ']' inserts a section that was not there.
\* So what follows a malformed or duplicate header never reaches the
\* section that was active before it.
C20_HeaderInvalidatesHandle ==
    [][ stack # <<>> =>
          LET n == Len(stack)
              f == Top
          IN
          /\ (/\ f.parse_action = "NEW_LINE"
              /\ Len(stack') = n
              /\ stack'[n].parse_action = "SECTION")
             => (stack'[n].section_ptr = nullptr /\ section_data' = section_data)
          /\ f.section_ptr = nullptr =>
               /\ \A s \in DOMAIN section_data :
                    s \in DOMAIN section_data' /\ section_data'[s] = section_data[s]
               /\ (Len(stack') = n /\ stack'[n].section_ptr # nullptr) =>
                    /\ Reading("]") /\ f.parse_action = "SECTION"
                    /\ stack'[n].section_ptr = f.section
                    /\ f.section \notin DOMAIN section_data
                    /\ section_data' = MapPut(section_data, f.section, Section)
               /\ section_data' # section_data =>
                    (Len(stack') = n /\ stack'[n].section_ptr # nullptr) ]_vars

\* section a holds k = v, the header of b was left open ("[b" and the end
\* of the line), and the parser is in the middle of the assignment k = w
C20_Witness ==
    /\ stack # <<>>
    /\ Top.section = <<"b">>
    /\ Top.section_ptr = nullptr
    /\ Top.parse_action = "VALUE"
    /\ Top.key = <<"k">> /\ Top.value = <<"w">>
    /\ <<"b">> \notin DOMAIN section_data
    /\ <<"a">> \in DOMAIN section_data
    /\ section_data[<<"a">>].values = MapPut(EmptyMap, <<"k">>, <<"v">>)

(***************************************************************************)
(* Spaces.                                                                 *)
(***************************************************************************)
\* line has a space or tab between two identifier characters
SpaceInside(line) ==
    \E j \in 2..(Len(line) - 1) :
        /\ line[j] \in {" ", "\t"}
        /\ line[j - 1] \in allowed_characters
        /\ line[j + 1] \in allowed_characters

\* the read loop, arriving at line i of lines in NEW_LINE, reports the
\* space while it reads the line
SpaceRejected(lines, i) ==
    LET files == MapPut(EmptyMap, <<"f">>, <<>>)
        before == RunChars(files, <<>>, Frame, [x \in {} |-> Section], <<>>,
                           Flatten(SubSeq(lines, 1, i - 1)))
        after == RunChars(files, <<>>, before.f, before.sd, <<>>, lines[i])
    IN  before.f.parse_action = "NEW_LINE"
        => \E j \in DOMAIN after.diags : after.diags[j] = "Space in wrong place"

\* C21: a space between two identifier characters of a key or of a bare
\* value is rejected with a diagnostic, not silently dropped.
C21_SpaceInsideRejected ==
    Loaded => \A i \in DOMAIN input :
                SpaceInside(input[i]) => SpaceRejected(input, i)

(***************************************************************************)
(* Comment characters.                                                     *)
(***************************************************************************)
\* the locals of the read loop after the first n bytes of chars
FrameAfter(chars, n) ==
    RunChars(MapPut(EmptyMap, <<"f">>, <<>>), <<>>, Frame,
             [x \in {} |-> Section], <<>>, SubSeq(chars, 1, n)).f

\* C22: ';' is appended to the value in STRING_VALUE, is a no-op in COMMENT
\* and in MULTILINE_COMMENT, and enters COMMENT from every other state; a
\* multi-line comment therefore ends only at its closing '|'.
C22_SemicolonInComment ==
    Loaded =>
      LET chars == Flatten(input) IN
      \A n \in DOMAIN chars :
        chars[n] = comment_character =>
          LET before == FrameAfter(chars, n - 1)
              after == FrameAfter(chars, n)
          IN  CASE before.parse_action = "STRING_VALUE" ->
                     after = AddValue(before, comment_character)
                [] before.parse_action \in {"COMMENT", "MULTILINE_COMMENT"} ->
                     after.parse_action = before.parse_action
                [] OTHER -> after.parse_action = "COMMENT"

(***************************************************************************)
(* The ERROR state.                                                        *)
(***************************************************************************)
\* the model after the first n bytes of chars
StoreAfter(chars, n) ==
    RunChars(MapPut(EmptyMap, <<"f">>, <<>>), <<>>, Frame,
             [x \in {} |-> Section], <<>>, SubSeq(chars, 1, n)).sd

\* no byte of chars at the positions from to .. to is a newline
SameLine(chars, from, to) == \A j \in from..to : chars[j] # "\n"

\* C23: once the parser has entered ERROR on a line the model stays as it
\* is until the next newline is consumed, and that newline leaves the
\* parser in NEW_LINE.
C23_ErrorAbandonsLine ==
    Loaded =>
      LET chars == Flatten(input) IN
      \A n \in DOMAIN chars :
        FrameAfter(chars, n).parse_action = "ERROR" =>
          \A m \in (n + 1)..Len(chars) :
            SameLine(chars, n + 1, m - 1) =>
              IF chars[m] = "\n"
              THEN FrameAfter(chars, m).parse_action = "NEW_LINE"
              ELSE StoreAfter(chars, m) = StoreAfter(chars, n)

(***************************************************************************)
(* Quoted values over several lines.                                       *)
(***************************************************************************)
\* C24: a newline consumed in STRING_VALUE leaves the state STRING_VALUE,
\* commits nothing and becomes part of the value, so that a quoted value
\* spanning several lines is stored byte for byte.
C24_LineBreakInString ==
    Loaded =>
      LET chars == Flatten(input) IN
      \A n \in DOMAIN chars :
        (chars[n] = "\n"
         /\ FrameAfter(chars, n - 1).parse_action = "STRING_VALUE") =>
          /\ FrameAfter(chars, n).parse_action = "STRING_VALUE"
          /\ StoreAfter(chars, n) = StoreAfter(chars, n - 1)
          /\ FrameAfter(chars, n).value =
               Append(FrameAfter(chars, n - 1).value, "\n")

(***************************************************************************)
(* Section names.                                                          *)
(***************************************************************************)
\* C25: every section name in the model is non-empty: the header "[]"
\* inserts no section.
C25_NamesNonEmpty == \A s \in DOMAIN section_data : s # <<>>

(***************************************************************************)
(* The locals of a load frame.                                             *)
(***************************************************************************)
\* the parse state and the scratch buffers of a frame
Locals(f) ==
    <<f.parse_action, f.section_ptr, f.section, f.inheritance, f.attribute,
      f.key, f.value, f.pp_first, f.ignore_current_spaces, f.escape>>

\* C26: the parse state belongs to the load frame.  An included file
\* starts in NEW_LINE with a null handle and empty buffers; while it is
\* read no section that was in the model when it was entered is written to
\* except through its own handle, which never is the handle of an
\* includer; and when it returns the includer has the handle, the state
\* and the buffers it had at the directive.
C26_FrameLocalState ==
    [][ stack # <<>> =>
          LET n == Len(stack) IN
          /\ Len(stack') = n + 1 =>
               /\ Locals(stack'[n + 1]) = Locals(Frame)
               /\ Locals(stack'[n]) = Locals(Top)
          /\ n > 1 =>
               /\ \A i \in 1..(n - 1) :
                    stack[i].section_ptr # nullptr =>
                      /\ Top.section_ptr # stack[i].section_ptr
                      /\ section_data'[stack[i].section_ptr] =
                           section_data[stack[i].section_ptr]
               /\ Top.section_ptr = nullptr =>
                    \A s \in DOMAIN section_data :
                      section_data'[s] = section_data[s]
               /\ Len(stack') = n - 1 =>
                    Locals(stack'[n - 1]) = Locals(stack[n - 1]) ]_vars

\* the includer has section a with k = v active; the included file, before
\* any header of its own, is in the middle of the assignment k = w
C26_Witness ==
    /\ Len(stack) = 2
    /\ stack[1].section_ptr = <<"a">>
    /\ section_data[<<"a">>].values = MapPut(EmptyMap, <<"k">>, <<"v">>)
    /\ Top.section = <<>>
    /\ Top.section_ptr = nullptr
    /\ Top.parse_action = "VALUE"
    /\ Top.key = <<"k">> /\ Top.value = <<"w">>

(***************************************************************************)
(* The end of input.                                                       *)
(***************************************************************************)
\* the text of the file without its last byte
Unterminated == SubSeq(Flatten(input), 1, Len(Flatten(input)) - 1)

\* the last line of the file is an assignment to a key of the active
\* section: the newline that ends it is consumed in VALUE or VALUE_ARRAY
\* with a handle
EndsInAssignment ==
    /\ input # <<>>
    /\ LET f == FrameAfter(Unterminated, Len(Unterminated)) IN
       /\ f.parse_action \in {"VALUE", "VALUE_ARRAY"}
       /\ f.section_ptr # nullptr

\* C27: a value is committed only when a newline is consumed in VALUE or
\* VALUE_ARRAY.  When the input ends after "key = value" without the
\* newline the value is not stored: the key is bound to the empty string
\* inserted at '=', or to its earlier value if it was bound before the
\* line; with the newline it is bound to the value.  The two models differ
\* whenever the value differs from what the key was bound to.
C27_CommitOnlyOnNewline ==
    (Loaded /\ EndsInAssignment) =>
      LET chars == Flatten(input)
          n == Len(chars)
          f == FrameAfter(chars, n - 1)
          s == f.section_ptr
          prior == StoreAfter(chars, n - Len(input[Len(input)]))
          bound == s \in DOMAIN prior /\ f.key \in DOMAIN prior[s].values
          without == LoadText(Unterminated)
      IN  /\ without = StoreAfter(chars, n - 1)
          /\ f.key \in DOMAIN without[s].values
          /\ without[s].values[f.key] =
               IF bound THEN prior[s].values[f.key] ELSE <<>>
          /\ section_data = [without EXCEPT ![s].values[f.key] = f.value]
          /\ f.value # without[s].values[f.key] => without # section_data

\* the file "[a]" "k=v" has been loaded: with the last newline a.k is v,
\* without it a.k is the empty string
C27_Witness ==
    /\ Loaded
    /\ input = <<LnA, LnKV>>
    /\ section_data[<<"a">>].values[<<"k">>] = <<"v">>
    /\ LoadText(Unterminated)[<<"a">>].values[<<"k">>] = <<>>

====
